---- MODULE Spec2Model ----
(***************************************************************************)
(* Model of the browser client of py-ecs-tds (frontend/src/index.ts):      *)
(*   - class Debouncer, the rate-limited coalescing sender used for the    *)
(*     outbound "rotate" messages;                                         *)
(*   - Game.processMessage, the message-driven world state store;          *)
(*   - main, Game.beginUpdate, Game.beginRender and Game.renderFrame: the  *)
(*     start of a session, the input handlers and the frame loop.          *)
(* All callbacks run to completion on one event loop, so every handler is  *)
(* one atomic action.                                                      *)
(***************************************************************************)
EXTENDS Integers, Sequences, FiniteSets

VARIABLES
    \* ---- the wall clock and the browser's timer queue
    now,            \* new Date().getTime(), in ms since the Debouncer was built
    timers,         \* setTimeout callbacks not yet run: records [id, fireAt]
    timerSeq,       \* number of timer ids handed out by setTimeout so far
    \* ---- Debouncer fields
    intervalMs,     \* Debouncer.intervalMs
    lastMs,         \* Debouncer.lastMs
    lastValue,      \* Debouncer.lastValue (Null or a value)
    timer,          \* Debouncer.timer (Null or a timer id)
    \* ---- what the sink (doSend) and the caller have seen
    sink,           \* <<>> or <<[value, ms]>>: the last doSend call and its time
    lastSent,       \* argument of the most recent send() call (Null if none)
    delivered,      \* the value of the most recent send() has reached the sink
    intervalChanged,\* changeInterval() has been called since construction
    \* ---- Game fields written by processMessage
    players,        \* Game.players : Map<number, Player>
    bullets,        \* Game.bullets : Map<number, {x, y, isSupercharged}>
    boxes,          \* Game.boxes
    circles,        \* Game.circles
    notifications,  \* Game.notifications
    myId,           \* Game.myId (Null or a client id)
    diag,           \* console.error calls made by the handler that ran last
    \* ---- the page, the socket and the rest of Game
    buttonPresent,  \* the confirm button (and the name input) are still in the page
    inputValue,     \* input.value, a sequence of characters
    key,            \* e.key of the latest keydown / keyup event, "" before any
    sessions,       \* number of Game objects built (new Game)
    username,       \* Game.username, a sequence of characters
    wsState,        \* "none", "connecting", "open", "closed"
    hellos,         \* number of hello messages sent (beginUpdate calls)
    controls,       \* the Set<Control> of beginUpdate: movement controls held
    clientAngle,    \* Game.clientAngle
    lastTimestamp,  \* beginRender's lastTimestamp: <<>> (null) or <<t>>
    rafQueued,      \* a requestAnimationFrame callback is waiting
    canvas,         \* what the last renderFrame drew: <<>> or <<[eyes, board]>>
    \* ---- what the socket and the observer have seen
    out,            \* ws.send calls made by the handler that ran last, in order
    firstOut,       \* <<>> or <<m>>: the first message ever passed to ws.send
    lastInput,      \* per control, the last input message sent: "none", "down", "up"
    lastJoin,       \* <<>> or <<[id, username, age, frames]>>: the latest
                    \* player_joined, the frame deltas summed since it (in ms)
                    \* and the number of frames that made them up
    firstTimestamp, \* <<>> or <<t>>: timestamp of the first animation frame
    sumDelta,       \* sum of the deltas passed to renderFrame, in ms
    \* ---- the handler that ran last
    ev

debVars   == <<now, timers, timerSeq, intervalMs, lastMs, lastValue, timer,
               sink, lastSent, delivered, intervalChanged>>
storeVars == <<players, bullets, boxes, circles, notifications, myId, diag>>
gameVars  == <<buttonPresent, inputValue, key, sessions, username, wsState, hellos, controls,
               clientAngle, lastTimestamp, rafQueued, canvas, out, firstOut,
               lastInput, lastJoin, firstTimestamp, sumDelta>>
vars      == <<debVars, storeVars, gameVars, ev>>

\* ------------------------------------------------------------------------
\* Bounds of the model
\* ------------------------------------------------------------------------
MaxTime   == 500      \* the clock stops here
TickMs    == 25       \* granularity of the clock
MaxTimers == 3        \* setTimeout hands out at most this many ids
MaxLog    == 1        \* notifications and static shapes held by the store, together

\* ------------------------------------------------------------------------
\* Program constants
\* ------------------------------------------------------------------------
Null           == 0       \* null: lastValue, timer, myId
WideInterval   == 200     \* new Debouncer(200, ...) / changeInterval(200)
NarrowInterval == 25      \* changeInterval(25)
NotifTtl       == 6       \* ttl of a fresh notification, in seconds
MsPerSec       == 1000    \* frame deltas are timestamp differences / 1000

Intervals == {WideInterval, NarrowInterval}
Values    == {1, 2}       \* orientations passed to send()

\* ========================================================================
\* Debouncer
\* ========================================================================

\* const timeLeftMs = this.intervalMs - (now - this.lastMs)
TimeLeftMs(interval, t, last) == interval - (t - last)

\* if (timeLeftMs <= 0): dispatch now; else defer
DispatchesNow(left) == left <= 0

\* a send that schedules a timer whatever the handle holds
NeedsTimerAlways(h) == TRUE
\* if (this.timer === null): only then is a timer scheduled
NeedsTimer(h) == h = Null

\* this.doSend(value) : the sink records the call
DoSend(value) == sink' = <<[value |-> value, ms |-> now]>>

\* new Debouncer(200, doSend): lastMs = new Date().getTime(), timer = lastValue = null
DebouncerInit ==
    /\ now = 0
    /\ timers = {}
    /\ timerSeq = 0
    /\ intervalMs = WideInterval
    /\ lastMs = 0
    /\ lastValue = Null
    /\ timer = Null
    /\ sink = <<>>
    /\ lastSent = Null
    /\ delivered = FALSE
    /\ intervalChanged = FALSE

\* a changeInterval that also restarts the interval window
ChangeIntervalRestart(newIntervalMs) ==
    /\ intervalMs' = newIntervalMs
    /\ lastMs' = now
    /\ intervalChanged' = TRUE
    /\ ev' = "changeInterval"
    /\ UNCHANGED <<now, timers, timerSeq, lastValue, timer, sink, lastSent, delivered>>

\* changeInterval(newIntervalMs): this.intervalMs = newIntervalMs
ChangeInterval(newIntervalMs) ==
    /\ intervalMs' = newIntervalMs
    /\ intervalChanged' = TRUE
    /\ ev' = "changeInterval"
    /\ UNCHANGED <<now, timers, timerSeq, lastMs, lastValue, timer,
                   sink, lastSent, delivered>>

\* send(value)
Send(value) ==
    LET left == TimeLeftMs(intervalMs, now, lastMs) IN
    /\ lastSent' = value
    /\ IF DispatchesNow(left)
       THEN /\ DoSend(value)
            /\ lastMs' = now
            /\ delivered' = TRUE
            /\ ev' = "immediate"
            /\ UNCHANGED <<lastValue, timer, timers, timerSeq>>
       ELSE /\ lastValue' = value
            /\ delivered' = FALSE
            /\ IF NeedsTimer(timer)
               THEN /\ timerSeq < MaxTimers
                    /\ timerSeq' = timerSeq + 1
                    /\ timer' = timerSeq + 1
                    /\ timers' = timers \cup
                                 {[id |-> timerSeq + 1, fireAt |-> now + left]}
                    /\ ev' = "scheduled"
               ELSE /\ ev' = "stored"
                    /\ UNCHANGED <<timer, timers, timerSeq>>
            /\ UNCHANGED <<sink, lastMs>>
    /\ UNCHANGED <<now, intervalMs, intervalChanged>>

\* the setTimeout callback: () => { this.doSend(this.lastValue!) }
\* The browser runs it no earlier than its delay; other ready callbacks may run first.
TimerFire(t) ==
    /\ t \in timers
    /\ now >= t.fireAt
    /\ timers' = timers \ {t}
    /\ DoSend(lastValue)
    /\ delivered' = (delivered \/ lastValue = lastSent)
    /\ ev' = "deferred"
    /\ UNCHANGED <<now, timerSeq, intervalMs, lastMs, lastValue, timer,
                   lastSent, intervalChanged>>

\* the wall clock advances between callbacks
Tick ==
    /\ now + TickMs <= MaxTime
    /\ now' = now + TickMs
    /\ ev' = "tick"
    /\ UNCHANGED <<timers, timerSeq, intervalMs, lastMs, lastValue, timer,
                   sink, lastSent, delivered, intervalChanged>>

\* ========================================================================
\* World state store: Game.processMessage
\* ========================================================================
Ids       == {1, 2}              \* player ids and client ids on the wire
Names     == {"a", "b"}          \* usernames
BulletIds == {1}

\* A Map<K, V> is the set of its entries [key, val]; set() replaces the entry
\* of an existing key.
MapHas(map, k) == \E e \in map : e.key = k
MapGet(map, k) == (CHOOSE e \in map : e.key = k).val
MapDelete(map, k) == {e \in map : e.key # k}
\* a set() that leaves the old entry of the key in place
MapSetKeepOld(map, k, v) == map \cup {[key |-> k, val |-> v]}
\* Map.set(k, v)
MapSet(map, k, v) == {e \in map : e.key # k} \cup {[key |-> k, val |-> v]}
MapKeys(map) == {e.key : e \in map}

\* The fields of Game that processMessage reads and writes, as one value.
Store ==
    [players |-> players, bullets |-> bullets, boxes |-> boxes,
     circles |-> circles, notifications |-> notifications, myId |-> myId]

\* ---- messages (schema.ServerMessage), drawn from small sets
Positions == {[x |-> 0, y |-> 0, angle |-> 0], [x |-> 1, y |-> 2, angle |-> 3]}
Healths   == {0, 100}
Scores    == {0, 5}

PlayerIntros ==
    {[id |-> i, username |-> u, x |-> 1, y |-> 2, angle |-> 3,
      health |-> 100, score |-> 5] : i \in Ids, u \in Names}
ShapeIntros ==
    {[kind |-> "box", x |-> 10, y |-> 10, width |-> 5, height |-> 5],
     [kind |-> "circle", x |-> 20, y |-> 20, radius |-> 4]}

SeqsUpTo(S, n) == UNION {[1..k -> S] : k \in 0..n}

WelcomeMsgs  == {[type |-> "welcome", client_id |-> i] : i \in Ids}
PositionMsgs ==
    {[type |-> "player_position", id |-> i, x |-> p.x, y |-> p.y, angle |-> p.angle] :
        i \in Ids, p \in Positions}
HealthMsgs ==
    {[type |-> "player_health_changed", id |-> i, new_health |-> h] :
        i \in Ids, h \in Healths}
ScoreMsgs ==
    {[type |-> "player_score_changed", id |-> i, new_score |-> n] :
        i \in Ids, n \in Scores}
SnapshotMsgs ==
    {[type |-> "world_snapshot", players |-> ps, shapes |-> sh] :
        ps \in SeqsUpTo(PlayerIntros, 2), sh \in SeqsUpTo(ShapeIntros, 1)}
JoinedMsgs ==
    {[type |-> "player_joined", id |-> i, username |-> u] : i \in Ids, u \in Names}
DiedMsgs == {[type |-> "player_died", id |-> i] : i \in Ids}
LeftMsgs == {[type |-> "player_left", id |-> i] : i \in Ids}
BulletMsgs ==
    {[type |-> "bullet_position", id |-> i, x |-> 7, y |-> 8, is_supercharged |-> f] :
        i \in BulletIds, f \in BOOLEAN}
BulletGoneMsgs == {[type |-> "bullet_gone", id |-> i] : i \in BulletIds}
OtherMsgs == {[type |-> "bad_message", error |-> "e"], [type |-> "goodbye"]}

UpdateMsgs == PositionMsgs \cup HealthMsgs \cup ScoreMsgs
ServerMessages ==
    WelcomeMsgs \cup UpdateMsgs \cup SnapshotMsgs \cup JoinedMsgs \cup DiedMsgs
    \cup LeftMsgs \cup BulletMsgs \cup BulletGoneMsgs \cup OtherMsgs

\* The stream of messages the model's server sends: player 1 is named "a" and
\* player 2 "b", updates carry non-zero values and bullets are supercharged.
NameOf(i) == IF i = 1 THEN "a" ELSE "b"
Stream ==
    WelcomeMsgs \cup DiedMsgs \cup LeftMsgs \cup BulletGoneMsgs \cup OtherMsgs
    \cup {m \in JoinedMsgs : m.username = NameOf(m.id)}
    \cup {m \in PositionMsgs : m.x # 0}
    \cup {m \in HealthMsgs : m.new_health # 0}
    \cup {m \in ScoreMsgs : m.new_score # 0}
    \cup {m \in BulletMsgs : m.is_supercharged}
    \cup {m \in SnapshotMsgs :
            \A k \in 1..Len(m.players) : m.players[k].username = NameOf(m.players[k].id)}

\* ---- one operator per branch of processMessage

\* welcome: this.myId = msg.client_id
Welcome(S, msg) == [S EXCEPT !.myId = msg.client_id]

\* a player_position that creates the player it does not find
PlayerPositionUpsert(S, msg) ==
    LET old == IF MapHas(S.players, msg.id)
               THEN MapGet(S.players, msg.id)
               ELSE [id |-> msg.id, username |-> "a", x |-> 0, y |-> 0, angle |-> 0,
                     health |-> 0, score |-> 0]
    IN [S EXCEPT !.players =
            MapSet(@, msg.id, [old EXCEPT !.x = msg.x, !.y = msg.y, !.angle = msg.angle])]
\* player_position: x, y, angle of an existing player; otherwise console.error, return
PlayerPosition(S, msg) ==
    IF ~MapHas(S.players, msg.id) THEN S
    ELSE LET player == MapGet(S.players, msg.id) IN
         [S EXCEPT !.players =
            MapSet(@, msg.id,
                   [player EXCEPT !.x = msg.x, !.y = msg.y, !.angle = msg.angle])]

\* player_health_changed
PlayerHealthChanged(S, msg) ==
    IF ~MapHas(S.players, msg.id) THEN S
    ELSE LET player == MapGet(S.players, msg.id) IN
         [S EXCEPT !.players = MapSet(@, msg.id, [player EXCEPT !.health = msg.new_health])]

\* player_score_changed
PlayerScoreChanged(S, msg) ==
    IF ~MapHas(S.players, msg.id) THEN S
    ELSE LET player == MapGet(S.players, msg.id) IN
         [S EXCEPT !.players = MapSet(@, msg.id, [player EXCEPT !.score = msg.new_score])]

\* world_snapshot, first loop: this.players.set(player.id, {...}) for each listed player
RECURSIVE SetPlayers(_, _)
SetPlayers(map, intros) ==
    IF intros = <<>> THEN map
    ELSE LET player == Head(intros) IN
         SetPlayers(MapSet(map, player.id,
                           [id |-> player.id, username |-> player.username,
                            x |-> player.x, y |-> player.y, angle |-> player.angle,
                            health |-> player.health, score |-> player.score]),
                    Tail(intros))

\* world_snapshot, second loop: push each shape to boxes or to circles
RECURSIVE PushShapes(_, _)
PushShapes(S, shapes) ==
    IF shapes = <<>> THEN S
    ELSE LET shape == Head(shapes) IN
         PushShapes(IF shape.kind = "box"
                    THEN [S EXCEPT !.boxes = Append(@, shape)]
                    ELSE [S EXCEPT !.circles = Append(@, shape)],
                    Tail(shapes))

WorldSnapshot(S, msg) ==
    PushShapes([S EXCEPT !.players = SetPlayers(@, msg.players)], msg.shapes)

\* a fresh notification: { message, ttl: 6 }; ttl is kept in milliseconds
Notif(name, what) ==
    [message |-> <<name, what>>, ttl |-> NotifTtl * MsPerSec]

PlayerJoinedQuiet(S, msg) ==
    [S EXCEPT
       !.players = MapSet(@, msg.id,
                          [id |-> msg.id, username |-> msg.username, x |-> 0, y |-> 0,
                           angle |-> 0, health |-> 0, score |-> 0])]

\* player_joined
PlayerJoined(S, msg) ==
    [S EXCEPT
       !.players = MapSet(@, msg.id,
                          [id |-> msg.id, username |-> msg.username, x |-> 0, y |-> 0,
                           angle |-> 0, health |-> 0, score |-> 0]),
       !.notifications = Append(@, Notif(msg.username, "joined"))]

PlayerGoneKeepsPlayer(S, msg, what) ==
    IF ~MapHas(S.players, msg.id) THEN S
    ELSE [S EXCEPT !.notifications =
                       Append(@, Notif(MapGet(S.players, msg.id).username, what))]

\* player_died / player_left: if (!player) return; push notification; delete
PlayerGone(S, msg, what) ==
    IF ~MapHas(S.players, msg.id) THEN S
    ELSE LET player == MapGet(S.players, msg.id) IN
         [S EXCEPT !.notifications = Append(@, Notif(player.username, what)),
                   !.players = MapDelete(@, msg.id)]

\* bullet_position / bullet_gone
BulletPosition(S, msg) ==
    [S EXCEPT !.bullets =
        MapSet(@, msg.id, [x |-> msg.x, y |-> msg.y, isSupercharged |-> msg.is_supercharged])]
BulletGone(S, msg) == [S EXCEPT !.bullets = MapDelete(@, msg.id)]

\* processMessage(msg) as a function of the store; any other tag (goodbye,
\* bad_message) falls through every branch and changes nothing
ApplyMessage(S, msg) ==
    CASE msg.type = "welcome"               -> Welcome(S, msg)
      [] msg.type = "player_position"       -> PlayerPosition(S, msg)
      [] msg.type = "player_health_changed" -> PlayerHealthChanged(S, msg)
      [] msg.type = "player_score_changed"  -> PlayerScoreChanged(S, msg)
      [] msg.type = "world_snapshot"        -> WorldSnapshot(S, msg)
      [] msg.type = "player_joined"         -> PlayerJoined(S, msg)
      [] msg.type = "player_died"           -> PlayerGone(S, msg, "died")
      [] msg.type = "player_left"           -> PlayerGone(S, msg, "left")
      [] msg.type = "bullet_position"       -> BulletPosition(S, msg)
      [] msg.type = "bullet_gone"           -> BulletGone(S, msg)
      [] OTHER                              -> S

\* the console.error calls processMessage(msg) makes
Diagnostics(S, msg) ==
    IF msg.type \in {"player_position", "player_health_changed", "player_score_changed"}
    THEN (IF MapHas(S.players, msg.id) THEN 0 ELSE 1)
    ELSE IF msg.type = "bad_message" THEN 1 ELSE 0

\* new Game(...): empty maps and lists, myId = null
StoreInit ==
    /\ players = {}
    /\ bullets = {}
    /\ boxes = <<>>
    /\ circles = <<>>
    /\ notifications = <<>>
    /\ myId = Null
    /\ diag = 0

\* the "message" listener: processMessage(JSON.parse(e.data))
Deliver(msg, cap) ==
    \E T \in {ApplyMessage(Store, msg)} :
    /\ Len(T.notifications) + Len(T.boxes) + Len(T.circles) <= cap
    /\ players' = T.players
    /\ bullets' = T.bullets
    /\ boxes' = T.boxes
    /\ circles' = T.circles
    /\ notifications' = T.notifications
    /\ myId' = T.myId
    /\ diag' = Diagnostics(Store, msg)
    /\ ev' = msg.type

ProcessMessage(msg) == Deliver(msg, MaxLog)

\* ========================================================================
\* Specifications
\* ========================================================================
Controls == {"left", "right", "up", "down"}     \* the movement controls

\* An active session at time 0: the name "a" was confirmed, the Game built,
\* the socket opened, beginUpdate sent hello and beginRender asked for a frame.
GameInit ==
    /\ buttonPresent = FALSE
    /\ inputValue = <<"a">>
    /\ key = ""
    /\ sessions = 1
    /\ username = <<"a">>
    /\ wsState = "open"
    /\ hellos = 1
    /\ controls = {}
    /\ clientAngle = 0
    /\ lastTimestamp = <<>>
    /\ rafQueued = TRUE
    /\ canvas = <<>>
    /\ out = <<>>
    /\ firstOut = <<[type |-> "hello", username |-> <<"a">>]>>
    /\ lastInput = [c \in Controls |-> "none"]
    /\ lastJoin = <<>>
    /\ firstTimestamp = <<>>
    /\ sumDelta = 0

Init == DebouncerInit /\ StoreInit /\ GameInit /\ ev = "init"

DebNext ==
    \/ \E v \in Values : Send(v) /\ UNCHANGED <<storeVars, gameVars>>
    \/ \E i \in Intervals : ChangeInterval(i) /\ UNCHANGED <<storeVars, gameVars>>
    \/ \E t \in timers : TimerFire(t) /\ UNCHANGED <<storeVars, gameVars>>
    \/ Tick /\ UNCHANGED <<storeVars, gameVars>>

DebSpec == Init /\ [][DebNext]_vars

\* The same Debouncer under an ideal timer: a due callback runs before any
\* other callback and before the clock moves on.
NoTimerDue == \A t \in timers : now < t.fireAt

PunctualNext ==
    \/ NoTimerDue /\ (\E v \in Values : Send(v)) /\ UNCHANGED <<storeVars, gameVars>>
    \/ NoTimerDue /\ (\E i \in Intervals : ChangeInterval(i)) /\ UNCHANGED <<storeVars, gameVars>>
    \/ \E t \in timers : TimerFire(t) /\ UNCHANGED <<storeVars, gameVars>>
    \/ NoTimerDue /\ Tick /\ UNCHANGED <<storeVars, gameVars>>

PunctualSpec == Init /\ [][PunctualNext]_vars

\* The store under a stream of server messages.
StoreNext == \E msg \in Stream : ProcessMessage(msg) /\ UNCHANGED <<debVars, gameVars>>

StoreSpec == Init /\ [][StoreNext]_vars

\* ========================================================================
\* Debouncer properties
\* ========================================================================
SendKinds     == {"immediate", "scheduled", "stored"}
DispatchKinds == {"immediate", "deferred"}

\* C1: with the interval held constant, sends issued strictly within one
\* interval window after the previous actual dispatch are coalesced into exactly
\* one dispatch: such a send dispatches nothing itself and leaves exactly one
\* deferred dispatch outstanding, holding the last value passed and due no
\* earlier than intervalMs after the previous actual dispatch; and the deferred
\* dispatch, when it fires, carries the last value passed and fires no earlier
\* than intervalMs after the previous actual dispatch.
C1_OneDispatchPerWindow ==
    [][ (~intervalChanged' /\ sink # <<>>) =>
          /\ (ev' \in SendKinds /\ now - sink[1].ms < intervalMs) =>
                /\ ev' # "immediate"
                /\ Cardinality(timers') = 1
                /\ lastValue' = lastSent'
                /\ \A t \in timers' : t.fireAt >= sink[1].ms + intervalMs
          /\ (ev' = "deferred") =>
                /\ sink'[1].value = lastSent
                /\ now >= sink[1].ms + intervalMs
      ]_vars

\* C2: the freshest value is always eventually delivered. Once no deferred
\* dispatch is outstanding nothing more reaches the sink unless send is called
\* again, so in every state without an outstanding deferred dispatch the value
\* of the last send call has already been dispatched.
C2_FreshestDelivered ==
    (lastSent # Null /\ timers = {}) => delivered

\* C3: whenever a deferred dispatch fires, the value it delivers is the value
\* of the most recent send call made before it fires.
C3_DeferredCarriesLatest ==
    [][ ev' = "deferred" => sink'[1].value = lastSent ]_vars

\* C4: with the interval held constant, any two consecutive dispatches to the
\* sink (immediate or deferred) are at least intervalMs apart.
C4_OnePerInterval ==
    [][ (ev' \in DispatchKinds /\ sink # <<>> /\ ~intervalChanged') =>
            sink'[1].ms - sink[1].ms >= intervalMs ]_vars

C6_ChangeIntervalFrame ==
    [][ ev' = "changeInterval" =>
            /\ intervalMs' \in Intervals
            /\ UNCHANGED <<lastValue, lastMs, timers, timer, timerSeq, sink, now>>
      ]_vars

\* C6 witness: the interval has just been narrowed while a deferred dispatch
\* scheduled under the wide interval is outstanding, still due at its old time.
C6_Witness ==
    /\ ev = "changeInterval"
    /\ intervalMs = NarrowInterval
    /\ lastValue # Null
    /\ \E t \in timers : t.fireAt = lastMs + WideInterval /\ t.fireAt > now

\* ========================================================================
\* Store properties
\* ========================================================================

\* C7: once myId is non-null, no later message changes it.
C7_IdentitySetOnce ==
    [][ myId # Null => myId' = myId ]_vars

\* C8: every message is idempotent under replay: applied twice in a row it
\* yields the same store (players, bullets, shapes, notifications, local
\* identity) as applied once.
C8_ReplayIdempotent ==
    \A msg \in ServerMessages :
        ApplyMessage(ApplyMessage(Store, msg), msg) = ApplyMessage(Store, msg)

\* the last entry of a snapshot's player list that carries the id
LastListed(intros, id) ==
    intros[CHOOSE k \in 1..Len(intros) :
              /\ intros[k].id = id
              /\ \A j \in (k+1)..Len(intros) : intros[j].id # id]

ListedIds(intros) == {intros[k].id : k \in 1..Len(intros)}

UniqueIds(map) ==
    /\ \A e \in map : e.val.id = e.key
    /\ \A e1, e2 \in map : e1.key = e2.key => e1 = e2

\* C9: after a world_snapshot is applied to any reachable store, each listed
\* id has exactly one player, whose fields are those the snapshot lists for it;
\* players not listed are unchanged; and no two players ever share an id.
C9_SnapshotUpserts ==
    /\ UniqueIds(players)
    /\ \A msg \in SnapshotMsgs :
          LET T == ApplyMessage(Store, msg).players
              listed == ListedIds(msg.players)
          IN /\ UniqueIds(T)
             /\ \A id \in listed :
                   /\ Cardinality({e \in T : e.key = id}) = 1
                   /\ MapGet(T, id) = LastListed(msg.players, id)
             /\ {e \in T : e.key \notin listed} = {e \in players : e.key \notin listed}

\* C9 witness: a snapshot listing both players has just been applied; the store
\* holds exactly those two players with the snapshot's fields, and its shape.
C9_Witness ==
    /\ ev = "world_snapshot"
    /\ MapKeys(players) = Ids
    /\ \A e \in players : e.val.health = 100 /\ e.val.score = 5 /\ e.val.x = 1
    /\ Len(boxes) = 1

\* the fields of a player an update message names, as the message sets them
Updated(player, msg) ==
    CASE msg.type = "player_position" ->
            [player EXCEPT !.x = msg.x, !.y = msg.y, !.angle = msg.angle]
      [] msg.type = "player_health_changed" -> [player EXCEPT !.health = msg.new_health]
      [] msg.type = "player_score_changed"  -> [player EXCEPT !.score = msg.new_score]

\* C10: a player_position, player_health_changed or player_score_changed for
\* an id not in the store leaves the whole store unchanged and produces exactly
\* one diagnostic; for an id in the store only the named fields of that one
\* player change.
C10_UnknownPlayerUpdate ==
    \A msg \in UpdateMsgs :
        LET T == ApplyMessage(Store, msg) IN
        IF ~MapHas(players, msg.id)
        THEN T = Store /\ Diagnostics(Store, msg) = 1
        ELSE /\ T = [Store EXCEPT !.players = T.players]
             /\ MapDelete(T.players, msg.id) = MapDelete(players, msg.id)
             /\ Cardinality({e \in T.players : e.key = msg.id}) = 1
             /\ MapGet(T.players, msg.id) = Updated(MapGet(players, msg.id), msg)

\* C10 witness: a player_position for an absent id has just been processed:
\* one diagnostic, while the store still holds the other player, a bullet and
\* a notification.
C10_Witness ==
    /\ ev = "player_position"
    /\ diag = 1
    /\ players # {}
    /\ bullets # {}
    /\ notifications # <<>>

(***************************************************************************)
(* Departures: player_died and player_left                                 *)
(***************************************************************************)
GoneWord(msg) == IF msg.type = "player_died" THEN "died" ELSE "left"

\* C11: player_left and player_died remove the player with the given id if
\* it is present and append exactly one notification that names the
\* player's last-known username; for an absent id nothing changes at all,
\* neither the players nor the notification queue.
C11_Departure ==
    \A msg \in DiedMsgs \cup LeftMsgs :
        LET T == ApplyMessage(Store, msg) IN
        IF MapHas(players, msg.id)
        THEN /\ T.players = {e \in players : e.key # msg.id}
             /\ Len(T.notifications) = Len(notifications) + 1
             /\ SubSeq(T.notifications, 1, Len(notifications)) = notifications
             /\ T.notifications[Len(T.notifications)].message
                    = <<MapGet(players, msg.id).username, GoneWord(msg)>>
             /\ <<T.bullets, T.boxes, T.circles, T.myId>>
                    = <<bullets, boxes, circles, myId>>
        ELSE T = Store

\* a player has just left while another stays, and the queue names the leaver
C11_Witness ==
    /\ ev \in {"player_left", "player_died"}
    /\ notifications # <<>>
    /\ notifications[Len(notifications)].message[2] \in {"left", "died"}
    /\ \E e \in players : e.val.username # notifications[Len(notifications)].message[1]
    /\ \A e \in players : e.val.username # notifications[Len(notifications)].message[1]

(***************************************************************************)
(* The frame loop: beginRender, onFrameRender and renderFrame              *)
(***************************************************************************)
MaxFrameTime == 7500      \* the clock of the frame loop stops here, in ms
MaxNotifs    == 2         \* notifications queued at once in the frame loop
MaxPlayers   == 6         \* players on the scoreboard's input
TopN         == 5         \* .slice(0, 5)

FrameDelays == {2500, 3500}       \* time between two callbacks, in ms
ScoreVals   == {5, 9}

\* keyToCmp(key)(a, b), on the two key values
KeyToCmp(ka, kb) == IF ka < kb THEN -1 ELSE IF ka > kb THEN 1 ELSE 0

\* the key functions handed to keyToCmp: ({ id }) => id, ({ score }) => -score
KeyOf(by, player) ==
    CASE by = "id"     -> player.id
      [] by = "-score" -> 0 - player.score

\* Array.prototype.sort with a comparator is stable: an element goes behind
\* every element that does not compare greater than it.
RECURSIVE InsertSorted(_, _, _)
InsertSorted(sorted, x, by) ==
    IF sorted = <<>> THEN <<x>>
    ELSE IF KeyToCmp(KeyOf(by, sorted[1]), KeyOf(by, x)) <= 0
         THEN <<sorted[1]>> \o InsertSorted(Tail(sorted), x, by)
         ELSE <<x>> \o sorted

RECURSIVE SortFrom(_, _, _)
SortFrom(sorted, rest, by) ==
    IF rest = <<>> THEN sorted
    ELSE SortFrom(InsertSorted(sorted, rest[1], by), Tail(rest), by)

Sort(arr, by) == SortFrom(<<>>, arr, by)

Slice(arr, n) == SubSeq(arr, 1, IF Len(arr) < n THEN Len(arr) ELSE n)

ScoreboardUnbrokenTies(arr) == Slice(Sort(arr, "-score"), TopN)

\* [...values].sort(by id).sort(by -score).slice(0, 5)
Scoreboard(arr) == Slice(Sort(Sort(arr, "id"), "-score"), TopN)

\* players.values() iterates in insertion order, which the store model does
\* not keep: the orders tried are the rotations of the id order and of its
\* reverse (every order, up to three players).
RECURSIVE ById(_)
ById(M) ==
    IF M = {} THEN <<>>
    ELSE LET e == CHOOSE e \in M : \A f \in M : e.key <= f.key
         IN  <<e.val>> \o ById(M \ {e})

Rotated(arr, k)  == SubSeq(arr, k + 1, Len(arr)) \o SubSeq(arr, 1, k)
Reverse(arr)    == [i \in 1..Len(arr) |-> arr[Len(arr) + 1 - i]]
ValueOrders(M)  ==
    {Rotated(ById(M), k) : k \in 0..Cardinality(M)}
    \cup {Rotated(Reverse(ById(M)), k) : k \in 0..Cardinality(M)}

\* const displayAngle = id === this.myId ? this.clientAngle : angle
DisplayAngleServer(id, player) == player.angle
DisplayAngle(id, player) == IF id = myId THEN clientAngle ELSE player.angle

StillQueuedStrict(n) == n.ttl > 0
\* filter(({ ttl }) => ttl >= 0)
StillQueued(n) == n.ttl >= 0

\* notifications.forEach(n => n.ttl -= delta), then the filter
TickNotifications(ns, delta) ==
    SelectSeq([i \in 1..Len(ns) |-> [ns[i] EXCEPT !.ttl = @ - delta]], StillQueued)

\* the lastJoin observer ages with the frames
AgeJoin(delta) ==
    [i \in 1..Len(lastJoin) |->
        [lastJoin[i] EXCEPT !.age = @ + delta, !.frames = @ + 1]]

\* renderFrame(delta): what it draws of the players, and the notification tick
RenderFrame(delta) ==
    /\ notifications' = TickNotifications(notifications, delta)
    /\ \E arr \in ValueOrders(players) :
         canvas' = <<[eyes  |-> {<<e.val.id, DisplayAngle(e.val.id, e.val)>> : e \in players},
                      board |-> Scoreboard(arr)]>>

OnFrameRenderKeepsBaseline ==
    /\ rafQueued
    /\ IF lastTimestamp = <<>> THEN TRUE ELSE now > lastTimestamp[1]
    /\ IF lastTimestamp = <<>>
       THEN /\ UNCHANGED <<notifications, canvas, sumDelta, lastJoin>>
            /\ lastTimestamp' = <<now>>
       ELSE /\ RenderFrame(now - lastTimestamp[1])
            /\ sumDelta' = sumDelta + (now - lastTimestamp[1])
            /\ lastJoin' = AgeJoin(now - lastTimestamp[1])
            /\ UNCHANGED lastTimestamp
    /\ firstTimestamp' = IF firstTimestamp = <<>> THEN <<now>> ELSE firstTimestamp
    /\ rafQueued' = TRUE
    /\ out' = <<>>
    /\ ev' = "frame"
    /\ UNCHANGED <<debVars, players, bullets, boxes, circles, myId, diag>>
    /\ UNCHANGED <<buttonPresent, inputValue, key, sessions, username, wsState, hellos, controls,
                   clientAngle, firstOut, lastInput>>

\* the requestAnimationFrame callback, called with timestamp = now; the
\* browser runs it once per display refresh, each with a later timestamp
OnFrameRender ==
    /\ rafQueued
    /\ IF lastTimestamp = <<>> THEN TRUE ELSE now > lastTimestamp[1]
    /\ IF lastTimestamp = <<>>
       THEN /\ UNCHANGED <<notifications, canvas, sumDelta, lastJoin>>
       ELSE /\ RenderFrame(now - lastTimestamp[1])
            /\ sumDelta' = sumDelta + (now - lastTimestamp[1])
            /\ lastJoin' = AgeJoin(now - lastTimestamp[1])
    /\ lastTimestamp' = <<now>>
    /\ firstTimestamp' = IF firstTimestamp = <<>> THEN <<now>> ELSE firstTimestamp
    /\ rafQueued' = TRUE
    /\ out' = <<>>
    /\ ev' = "frame"
    /\ UNCHANGED <<debVars, players, bullets, boxes, circles, myId, diag>>
    /\ UNCHANGED <<buttonPresent, inputValue, key, sessions, username, wsState, hellos, controls,
                   clientAngle, firstOut, lastInput>>

\* time passes between two callbacks
Elapse(d) ==
    /\ now + d <= MaxFrameTime
    /\ now' = now + d
    /\ ev' = "elapse"
    /\ out' = <<>>
    /\ UNCHANGED <<timers, timerSeq, intervalMs, lastMs, lastValue, timer, sink,
                   lastSent, delivered, intervalChanged>>
    /\ UNCHANGED storeVars
    /\ UNCHANGED <<buttonPresent, inputValue, key, sessions, username, wsState, hellos, controls,
                   clientAngle, lastTimestamp, rafQueued, canvas, firstOut,
                   lastInput, lastJoin, firstTimestamp, sumDelta>>

\* the socket closes; the program listens for no "close" event
SocketClose ==
    /\ wsState = "open"
    /\ wsState' = "closed"
    /\ ev' = "close"
    /\ out' = <<>>
    /\ UNCHANGED <<debVars, storeVars>>
    /\ UNCHANGED <<buttonPresent, inputValue, key, sessions, username, hellos, controls, clientAngle,
                   lastTimestamp, rafQueued, canvas, firstOut, lastInput, lastJoin,
                   firstTimestamp, sumDelta>>

\* the observer of the latest player_joined
NoteJoin(msg) ==
    IF msg.type = "player_joined"
    THEN <<[id |-> msg.id, username |-> msg.username, age |-> 0, frames |-> 0]>>
    ELSE lastJoin

\* ---- the frame loop with a player who joins and leaves
FrameStream ==
    {[type |-> "player_joined", id |-> 1, username |-> "a"],
     [type |-> "player_left", id |-> 1],
     [type |-> "goodbye"]}

FrameNext ==
    \/ \E d \in FrameDelays : Elapse(d)
    \/ OnFrameRender
    \/ \E msg \in FrameStream :
         /\ wsState = "open"
         /\ Deliver(msg, MaxNotifs)
         /\ lastJoin' = NoteJoin(msg)
         /\ out' = <<>>
         /\ UNCHANGED debVars
         /\ UNCHANGED <<buttonPresent, inputValue, key, sessions, username, wsState, hellos, controls,
                        clientAngle, lastTimestamp, rafQueued, canvas, firstOut,
                        lastInput, firstTimestamp, sumDelta>>
    \/ SocketClose

FrameSpec == Init /\ [][FrameNext]_vars

\* ---- the scoreboard of a frame, for every collection of up to MaxPlayers
ScoredPlayers ==
    {{[key |-> i,
       val |-> [id |-> i, username |-> "a", x |-> 0, y |-> 0, angle |-> 0,
                health |-> 0, score |-> sc[i]]] : i \in 1..n} :
        n \in 0..MaxPlayers, sc \in [1..MaxPlayers -> ScoreVals]}

ScoreInit ==
    /\ DebouncerInit
    /\ players \in ScoredPlayers
    /\ bullets = {} /\ boxes = <<>> /\ circles = <<>> /\ notifications = <<>>
    /\ myId = Null /\ diag = 0
    /\ GameInit
    /\ ev = "init"

ScoreNext == OnFrameRender \/ (\E d \in FrameDelays : Elapse(d))

ScoreSpec == ScoreInit /\ [][ScoreNext]_vars

(***************************************************************************)
(* Notifications in the frame loop                                         *)
(***************************************************************************)
Kept(ns, delta) == {i \in 1..Len(ns) : ns[i].ttl - delta >= 0}

\* C12: a ticking frame lowers every notification's ttl by exactly the
\* frame's delta, keeps in their order exactly the entries whose new ttl is
\* at least zero (zero included) and drops the others, so that after the
\* frame every queued notification has ttl >= 0.
C12_NotificationTick ==
    [][(ev' = "frame" /\ lastTimestamp # <<>>) =>
         LET delta == now' - lastTimestamp[1]
             kept  == Kept(notifications, delta)
         IN  /\ Len(notifications') = Cardinality(kept)
             /\ \A i \in kept :
                  notifications'[Cardinality({j \in kept : j <= i})]
                      = [message |-> notifications[i].message,
                         ttl |-> notifications[i].ttl - delta]
             /\ \A k \in 1..Len(notifications') : notifications'[k].ttl >= 0]_vars

\* a frame has left two notifications queued, the older one at exactly zero
C12_Witness ==
    /\ ev = "frame"
    /\ Len(notifications) = 2
    /\ notifications[1].ttl = 0
    /\ notifications[2].ttl > 0

(***************************************************************************)
(* The scoreboard                                                          *)
(***************************************************************************)
\* a is listed before b: higher score first, equal scores by ascending id
RanksBefore(a, b) == a.score > b.score \/ (a.score = b.score /\ a.id < b.id)

\* C13: the scoreboard a frame draws is the first 5 players (all, if there
\* are fewer) of the collection in the order score descending, ties by id
\* ascending, and drawing it leaves the player collection unchanged.
C13_Scoreboard ==
    [][(ev' = "frame" /\ lastTimestamp # <<>>) =>
         LET board == canvas'[1].board
             all   == {e.val : e \in players}
             shown == {board[k] : k \in 1..Len(board)}
         IN  /\ players' = players
             /\ Len(board) = (IF Cardinality(all) < TopN THEN Cardinality(all) ELSE TopN)
             /\ shown \subseteq all
             /\ \A i, j \in 1..Len(board) : i < j => RanksBefore(board[i], board[j])
             /\ \A p \in all \ shown : \A q \in shown : RanksBefore(q, p)]_vars

\* (id 3, score 5), (id 1, score 5), (id 2, score 9) is drawn as ids 2, 1, 3
C13_Witness ==
    /\ ev = "frame"
    /\ canvas # <<>>
    /\ {<<e.key, e.val.score>> : e \in players} = {<<1, 5>>, <<2, 9>>, <<3, 5>>}
    /\ [k \in 1..Len(canvas[1].board) |-> canvas[1].board[k].id] = <<2, 1, 3>>

(***************************************************************************)
(* A join and its notification                                             *)
(***************************************************************************)
JoinText(j) == <<j.username, "joined">>

\* the notification of the latest join is queued, with what is left of its 6 s
JoinQueued ==
    \A k \in 1..Len(lastJoin) :
        LET j == lastJoin[k] IN
        IF j.age <= NotifTtl * MsPerSec
        THEN \E i \in 1..Len(notifications) :
                 notifications[i] = [message |-> JoinText(j),
                                     ttl |-> NotifTtl * MsPerSec - j.age]
        ELSE \A i \in 1..Len(notifications) : notifications[i].message # JoinText(j)

\* C14: player_joined{id, username} inserts a player with that id and
\* username and zero position, angle, health and score, and appends the
\* notification "<username> joined" with ttl 6; the notification stays
\* queued while the frame deltas summed since the join are at most 6 s and
\* is gone once they exceed 6 s (three frames of 2.5 s).
C14_JoinNotification ==
    [][/\ ev' = "player_joined" =>
            LET j == lastJoin'[1] IN
            /\ MapHas(players', j.id)
            /\ MapGet(players', j.id) =
                   [id |-> j.id, username |-> j.username, x |-> 0, y |-> 0,
                    angle |-> 0, health |-> 0, score |-> 0]
            /\ notifications' =
                   Append(notifications, [message |-> JoinText(j),
                                          ttl |-> NotifTtl * MsPerSec])
       /\ JoinQueued']_vars

\* three frames of 2.5 s after the join: the player is there, the notification gone
C14_Witness ==
    /\ ev = "frame"
    /\ lastJoin # <<>>
    /\ lastJoin[1].frames = 3
    /\ lastJoin[1].age = 7500
    /\ MapHas(players, lastJoin[1].id)
    /\ notifications = <<>>

(***************************************************************************)
(* The end of a session                                                    *)
(***************************************************************************)
\* goodbye has just been received, or the socket has closed
Ended == wsState = "closed" \/ ev = "goodbye"

\* C15: once the session has ended (goodbye received or socket closed), a
\* deferred Debouncer dispatch or an animation frame that fires afterwards
\* is a no-op: it sends nothing, does not tick the notifications, schedules
\* no further frame or timer, and the world state stays as it was.
C15_TerminalNoOp ==
    [][(Ended /\ ev' \in {"frame", "deferred"}) =>
         /\ out' = <<>>
         /\ notifications' = notifications
         /\ ~rafQueued'
         /\ timers' \subseteq timers
         /\ UNCHANGED <<players, bullets, boxes, circles, myId>>]_vars

(***************************************************************************)
(* The start of a session (main) and the input handlers (beginUpdate)      *)
(***************************************************************************)
MaxNameLen == 3                   \* characters typed into the name input

Chars       == {" ", "b"}
InputValues == SeqsUpTo(Chars, MaxNameLen)
Keys        == {"ArrowLeft", "ArrowRight", "ArrowDown", "ArrowUp", "Enter"}

renderVars == <<lastTimestamp, canvas, lastJoin, firstTimestamp, sumDelta>>

\* String.prototype.trim, on a sequence of characters
RECURSIVE TrimStart(_)
TrimStart(str) ==
    IF str # <<>> /\ str[1] = " " THEN TrimStart(Tail(str)) ELSE str

RECURSIVE TrimEnd(_)
TrimEnd(str) ==
    IF str # <<>> /\ str[Len(str)] = " "
    THEN TrimEnd(SubSeq(str, 1, Len(str) - 1))
    ELSE str

Trim(str) == TrimEnd(TrimStart(str))

\* the page before the confirm button is clicked
PageInit ==
    /\ DebouncerInit
    /\ StoreInit
    /\ buttonPresent = TRUE
    /\ inputValue = <<>>
    /\ key = ""
    /\ sessions = 0
    /\ username = <<>>
    /\ wsState = "none"
    /\ hellos = 0
    /\ controls = {}
    /\ clientAngle = 0
    /\ lastTimestamp = <<>>
    /\ rafQueued = FALSE
    /\ canvas = <<>>
    /\ out = <<>>
    /\ firstOut = <<>>
    /\ lastInput = [c \in Controls |-> "none"]
    /\ lastJoin = <<>>
    /\ firstTimestamp = <<>>
    /\ sumDelta = 0
    /\ ev = "init"

\* the observers of the wire after a handler has called ws.send for msgs
IsInput(m, c) == m.type \in {"input_down", "input_up"} /\ m.control = c

NoteOut(msgs) ==
    /\ out' = msgs
    /\ firstOut' = IF firstOut = <<>> /\ msgs # <<>> THEN <<msgs[1]>> ELSE firstOut
    /\ lastInput' =
         [c \in Controls |->
            IF \E i \in 1..Len(msgs) : IsInput(msgs[i], c)
            THEN LET i == CHOOSE i \in 1..Len(msgs) :
                              /\ IsInput(msgs[i], c)
                              /\ \A j \in (i + 1)..Len(msgs) : ~IsInput(msgs[j], c)
                 IN  IF msgs[i].type = "input_down" THEN "down" ELSE "up"
            ELSE lastInput[c]]

\* the user edits the name input
Type(value) ==
    /\ buttonPresent
    /\ inputValue' = value
    /\ ev' = "type"
    /\ NoteOut(<<>>)
    /\ UNCHANGED <<debVars, storeVars, renderVars>>
    /\ UNCHANGED <<buttonPresent, key, sessions, username, wsState, hellos, controls,
                   clientAngle, rafQueued>>

\* connectToWs(), new Game(ws, username, canvas), game.beginRender()
NewGame(name) ==
    /\ sessions' = sessions + 1
    /\ username' = name
    /\ wsState' = "connecting"
    /\ players' = {} /\ bullets' = {} /\ boxes' = <<>> /\ circles' = <<>>
    /\ notifications' = <<>> /\ myId' = Null
    /\ clientAngle' = 0
    /\ intervalMs' = WideInterval /\ lastMs' = now /\ lastValue' = Null /\ timer' = Null
    /\ lastTimestamp' = <<>>
    /\ rafQueued' = TRUE
    /\ UNCHANGED <<now, timers, timerSeq, sink, lastSent, delivered, intervalChanged>>
    /\ UNCHANGED <<diag, inputValue, key, hellos, controls, canvas, lastJoin,
                   firstTimestamp, sumDelta>>

ClickKeepsButton ==
    /\ buttonPresent
    /\ ev' = "click"
    /\ NoteOut(<<>>)
    /\ IF Trim(inputValue) = <<>>
       THEN UNCHANGED <<debVars, storeVars, renderVars, buttonPresent, inputValue, key,
                        sessions, username, wsState, hellos, controls, clientAngle,
                        rafQueued>>
       ELSE UNCHANGED buttonPresent /\ NewGame(Trim(inputValue))

\* the button's click listener
Click ==
    /\ buttonPresent
    /\ ev' = "click"
    /\ NoteOut(<<>>)
    /\ IF Trim(inputValue) = <<>>
       THEN UNCHANGED <<debVars, storeVars, renderVars, buttonPresent, inputValue, key,
                        sessions, username, wsState, hellos, controls, clientAngle,
                        rafQueued>>
       ELSE buttonPresent' = FALSE /\ NewGame(Trim(inputValue))

\* the socket's "open" event: beginUpdate sends hello and adds the listeners
SocketOpen ==
    /\ wsState = "connecting"
    /\ wsState' = "open"
    /\ controls' = {}
    /\ NoteOut(<<[type |-> "hello", username |-> username]>>)
    /\ hellos' = hellos + 1
    /\ ev' = "open"
    /\ UNCHANGED <<debVars, storeVars, renderVars>>
    /\ UNCHANGED <<buttonPresent, inputValue, key, sessions, username, clientAngle,
                   rafQueued>>

\* beginUpdate has added the mouse and key listeners
Listening == hellos > 0

\* keyToControl[e.key]
KeyToControl(k) ==
    CASE k = "ArrowLeft"  -> "left"
      [] k = "ArrowRight" -> "right"
      [] k = "ArrowDown"  -> "down"
      [] k = "ArrowUp"    -> "up"
      [] OTHER            -> "undefined"

KeyDownRepeats(k) ==
    /\ Listening
    /\ key' = k
    /\ ev' = "keydown"
    /\ IF KeyToControl(k) \in Controls
       THEN /\ controls' = controls \cup {KeyToControl(k)}
            /\ NoteOut(<<[type |-> "input_down", control |-> KeyToControl(k)]>>)
       ELSE /\ UNCHANGED controls
            /\ NoteOut(<<>>)
    /\ UNCHANGED <<debVars, storeVars, renderVars>>
    /\ UNCHANGED <<buttonPresent, inputValue, sessions, username, wsState, hellos,
                   clientAngle, rafQueued>>

\* the "keydown" listener
KeyDown(k) ==
    /\ Listening
    /\ key' = k
    /\ ev' = "keydown"
    /\ IF KeyToControl(k) \in Controls /\ KeyToControl(k) \notin controls
       THEN /\ controls' = controls \cup {KeyToControl(k)}
            /\ NoteOut(<<[type |-> "input_down", control |-> KeyToControl(k)]>>)
       ELSE /\ UNCHANGED controls
            /\ NoteOut(<<>>)
    /\ UNCHANGED <<debVars, storeVars, renderVars>>
    /\ UNCHANGED <<buttonPresent, inputValue, sessions, username, wsState, hellos,
                   clientAngle, rafQueued>>

\* the "keyup" listener
KeyUp(k) ==
    /\ Listening
    /\ key' = k
    /\ ev' = "keyup"
    /\ IF KeyToControl(k) \in Controls /\ KeyToControl(k) \in controls
       THEN /\ controls' = controls \ {KeyToControl(k)}
            /\ NoteOut(<<[type |-> "input_up", control |-> KeyToControl(k)]>>)
       ELSE /\ UNCHANGED controls
            /\ NoteOut(<<>>)
    /\ UNCHANGED <<debVars, storeVars, renderVars>>
    /\ UNCHANGED <<buttonPresent, inputValue, sessions, username, wsState, hellos,
                   clientAngle, rafQueued>>

RotateMsg(radians) == [type |-> "rotate", radians |-> radians]
FireDown == [type |-> "input_down", control |-> "fire"]
FireUp   == [type |-> "input_up", control |-> "fire"]

MouseDownFiresFirst ==
    /\ Listening
    /\ NoteOut(<<FireDown, RotateMsg(clientAngle)>>)
    /\ intervalMs' = NarrowInterval
    /\ intervalChanged' = TRUE
    /\ ev' = "mousedown"
    /\ UNCHANGED <<now, timers, timerSeq, lastMs, lastValue, timer, sink, lastSent,
                   delivered>>
    /\ UNCHANGED <<storeVars, renderVars>>
    /\ UNCHANGED <<buttonPresent, inputValue, key, sessions, username, wsState, hellos,
                   controls, clientAngle, rafQueued>>

\* the "mousedown" listener
MouseDown ==
    /\ Listening
    /\ NoteOut(<<RotateMsg(clientAngle), FireDown>>)
    /\ intervalMs' = NarrowInterval
    /\ intervalChanged' = TRUE
    /\ ev' = "mousedown"
    /\ UNCHANGED <<now, timers, timerSeq, lastMs, lastValue, timer, sink, lastSent,
                   delivered>>
    /\ UNCHANGED <<storeVars, renderVars>>
    /\ UNCHANGED <<buttonPresent, inputValue, key, sessions, username, wsState, hellos,
                   controls, clientAngle, rafQueued>>

\* the "mouseup" listener
MouseUp ==
    /\ Listening
    /\ intervalMs' = WideInterval
    /\ intervalChanged' = TRUE
    /\ NoteOut(<<FireUp>>)
    /\ ev' = "mouseup"
    /\ UNCHANGED <<now, timers, timerSeq, lastMs, lastValue, timer, sink, lastSent,
                   delivered>>
    /\ UNCHANGED <<storeVars, renderVars>>
    /\ UNCHANGED <<buttonPresent, inputValue, key, sessions, username, wsState, hellos,
                   controls, clientAngle, rafQueued>>

\* myPlayer() !== null
HasMyPlayer == myId # Null /\ MapHas(players, myId)

\* the "mousemove" listener; radians is the angle from the player to the pointer
MouseMove(radians) ==
    /\ Listening
    /\ IF ~HasMyPlayer
       THEN /\ ev' = "mousemove"
            /\ NoteOut(<<>>)
            /\ UNCHANGED <<debVars, clientAngle>>
       ELSE /\ clientAngle' = radians
            /\ Send(radians)
            /\ NoteOut(IF DispatchesNow(TimeLeftMs(intervalMs, now, lastMs))
                       THEN <<RotateMsg(radians)>> ELSE <<>>)
    /\ UNCHANGED <<storeVars, renderVars>>
    /\ UNCHANGED <<buttonPresent, inputValue, key, sessions, username, wsState, hellos,
                   controls, rafQueued>>

\* the rotateDebouncer's timer callback: sendMessage({ type: "rotate", radians })
DeferredRotate(t) ==
    /\ TimerFire(t)
    /\ NoteOut(<<RotateMsg(lastValue)>>)
    /\ UNCHANGED <<storeVars, renderVars>>
    /\ UNCHANGED <<buttonPresent, inputValue, key, sessions, username, wsState, hellos,
                   controls, clientAngle, rafQueued>>

\* ---- from the page to a session with keys and mouse buttons
InputNext ==
    \/ \E value \in InputValues : Type(value)
    \/ Click
    \/ SocketOpen
    \/ \E k \in Keys : KeyDown(k)
    \/ \E k \in Keys : KeyUp(k)
    \/ MouseDown
    \/ MouseUp

InputSpec == PageInit /\ [][InputNext]_vars

\* ---- the pointer, the Debouncer and the frames of an active session in
\* which the server names the local player and moves it
PointerStream ==
    {[type |-> "welcome", client_id |-> 1],
     [type |-> "world_snapshot",
      players |-> <<[id |-> 1, username |-> "a", x |-> 1, y |-> 2, angle |-> 3,
                     health |-> 100, score |-> 5],
                    [id |-> 2, username |-> "b", x |-> 1, y |-> 2, angle |-> 3,
                     health |-> 100, score |-> 5]>>,
      shapes |-> <<>>],
     [type |-> "player_position", id |-> 1, x |-> 0, y |-> 0, angle |-> 0]}

PointerNext ==
    \/ \E radians \in Values : MouseMove(radians)
    \/ MouseDown
    \/ MouseUp
    \/ \E t \in timers : DeferredRotate(t)
    \/ \E d \in FrameDelays : Elapse(d)
    \/ OnFrameRender
    \/ \E msg \in PointerStream :
         /\ ProcessMessage(msg)
         /\ NoteOut(<<>>)
         /\ UNCHANGED <<debVars, renderVars>>
         /\ UNCHANGED <<buttonPresent, inputValue, key, sessions, username, wsState,
                        hellos, controls, clientAngle, rafQueued>>

PointerSpec == Init /\ [][PointerNext]_vars

(***************************************************************************)
(* Keys                                                                    *)
(***************************************************************************)
InputMsg(type, c) == [type |-> type, control |-> c]

\* C16: for each movement control the outbound messages alternate
\* input_down, input_up, starting with input_down: a key-down sends
\* input_down unless the control's last message was input_down, a key-up
\* sends input_up only if it was, no other handler sends a movement input,
\* and the held set is exactly the controls whose last message was
\* input_down.
C16_KeyAlternation ==
    [][/\ ev' = "keydown" =>
            out' = IF KeyToControl(key') \in Controls
                      /\ lastInput[KeyToControl(key')] # "down"
                   THEN <<InputMsg("input_down", KeyToControl(key'))>>
                   ELSE <<>>
       /\ ev' = "keyup" =>
            out' = IF KeyToControl(key') \in Controls
                      /\ lastInput[KeyToControl(key')] = "down"
                   THEN <<InputMsg("input_up", KeyToControl(key'))>>
                   ELSE <<>>
       /\ ev' \notin {"keydown", "keyup"} =>
            \A i \in 1..Len(out') : \A c \in Controls : ~IsInput(out'[i], c)
       /\ controls' = {c \in Controls : lastInput'[c] = "down"}]_vars

\* a repeated key-down of a held control has sent nothing, while another
\* control has been pressed and released
C16_Witness ==
    /\ ev = "keydown"
    /\ out = <<>>
    /\ KeyToControl(key) \in controls
    /\ \E c \in Controls : lastInput[c] = "up"

(***************************************************************************)
(* The pointer                                                             *)
(***************************************************************************)
\* C17: a pointer press sends rotate with the client-predicted angle and
\* then input_down{fire}, past the Debouncer, and narrows the interval; a
\* release widens it again and sends input_up{fire}; every input_down{fire}
\* directly follows a rotate carrying the predicted angle of the press.
C17_PointerPress ==
    [][/\ ev' = "mousedown" =>
            /\ out' = <<[type |-> "rotate", radians |-> clientAngle],
                        [type |-> "input_down", control |-> "fire"]>>
            /\ intervalMs' = NarrowInterval
            /\ UNCHANGED <<lastMs, lastValue, timer, timers, sink, lastSent>>
       /\ ev' = "mouseup" =>
            /\ out' = <<[type |-> "input_up", control |-> "fire"]>>
            /\ intervalMs' = WideInterval
            /\ UNCHANGED <<lastMs, lastValue, timer, timers, sink, lastSent>>
       /\ \A i \in 1..Len(out') :
            out'[i] = [type |-> "input_down", control |-> "fire"] =>
                /\ i > 1
                /\ out'[i - 1] = [type |-> "rotate", radians |-> clientAngle']]_vars

\* a press while a deferred rotate is pending, with a predicted angle the
\* pointer has set
C17_Witness ==
    /\ ev = "mousedown"
    /\ clientAngle # 0
    /\ timers # {}
    /\ out[1].radians = clientAngle
    /\ intervalMs = NarrowInterval

\* C18: a frame draws the local player (id = myId) at the client-predicted
\* angle and every other player at its server angle; player_position and
\* world_snapshot never change the predicted angle, which changes only in a
\* pointer move made while the local player is known.
C18_DisplayedAngle ==
    [][/\ (ev' = "frame" /\ lastTimestamp # <<>>) =>
            \A e \in players :
                <<e.val.id, IF e.val.id = myId THEN clientAngle ELSE e.val.angle>>
                    \in canvas'[1].eyes
       /\ (ev' = "frame" /\ lastTimestamp # <<>>) =>
            Cardinality(canvas'[1].eyes) = Cardinality(players)
       /\ clientAngle' # clientAngle => (ev' \in SendKinds /\ HasMyPlayer)
       /\ ev' \in {"player_position", "world_snapshot"} => clientAngle' = clientAngle]_vars

\* the server says angle 0 for the local player, the pointer says 2: the
\* frame shows 2 for the local player and the server's 3 for the other one
C18_Witness ==
    /\ ev = "frame"
    /\ canvas # <<>>
    /\ myId = 1
    /\ MapHas(players, 1)
    /\ MapGet(players, 1).angle = 0
    /\ clientAngle = 2
    /\ canvas[1].eyes = {<<1, 2>>, <<2, 3>>}

(***************************************************************************)
(* The frame loop's clock                                                  *)
(***************************************************************************)
\* C19: the first animation frame only records its timestamp, draws nothing
\* and ticks nothing; every later frame ticks the notifications by
\* timestamp - previous timestamp and draws; every frame asks for the next
\* one; so the deltas sum to the time between the first and the last frame.
C19_FrameLoop ==
    [][ev' = "frame" =>
         /\ rafQueued'
         /\ lastTimestamp' = <<now'>>
         /\ IF lastTimestamp = <<>>
            THEN UNCHANGED <<notifications, canvas, sumDelta>>
            ELSE /\ notifications' =
                        TickNotifications(notifications, now' - lastTimestamp[1])
                 /\ canvas' # <<>>
                 /\ sumDelta' = sumDelta + (now' - lastTimestamp[1])
         /\ sumDelta' = now' - firstTimestamp'[1]]_vars

\* two ticking frames, 2.5 s after the first frame each, with a notification
C19_Witness ==
    /\ ev = "frame"
    /\ firstTimestamp = <<2500>>
    /\ sumDelta = 5000
    /\ lastTimestamp = <<7500>>
    /\ notifications # <<>>

(***************************************************************************)
(* The start of the session                                                *)
(***************************************************************************)
NonBlank(str) == \E i \in 1..Len(str) : str[i] # " "

\* C20: a session starts at most once, and only by a click with a name that
\* is non-empty once trimmed; hello{username} is sent exactly once, by the
\* socket's open event, and it is the first message ever sent.
C20_SessionStart ==
    [][/\ sessions' <= 1
       /\ sessions' # sessions =>
            /\ ev' = "click"
            /\ NonBlank(inputValue)
            /\ NonBlank(username')
            /\ username'[1] # " " /\ username'[Len(username')] # " "
            /\ \E i \in 0..Len(inputValue) :
                 username' = SubSeq(inputValue, i + 1, i + Len(username'))
       /\ (ev' = "click" /\ ~NonBlank(inputValue)) => sessions' = sessions
       /\ hellos' <= 1
       /\ hellos' # hellos =>
            /\ ev' = "open"
            /\ out' = <<[type |-> "hello", username |-> username]>>
       /\ \A i \in 1..Len(out') : out'[i].type = "hello" => hellos' = hellos + 1
       /\ firstOut' # <<>> => firstOut'[1] = [type |-> "hello", username |-> username']
       /\ (out' # <<>> /\ ev' # "open") => hellos = 1]_vars

\* the name " b " was confirmed, hello was sent, and a key has sent an input
C20_Witness ==
    /\ ev = "keydown"
    /\ out # <<>>
    /\ sessions = 1
    /\ hellos = 1
    /\ inputValue = <<" ", "b", " ">>
    /\ username = <<"b">>
    /\ firstOut = <<[type |-> "hello", username |-> <<"b">>]>>

====
